---- MODULE Spec2Model ----
(***************************************************************************)
(* A model of quick-cat.py: the path collector (collect_files), the        *)
(* syntax tagger (get_file_type), the directory tree renderer              *)
(* (generate_directory_structure), the document assembler                  *)
(* (concatenate_files), the chunk splitter                                 *)
(* (split_into_chunks_with_messages, the last definition of that name in   *)
(* the file, which is the one Python binds) and main; and of               *)
(* confirm_directories of concatenate-code.py.                             *)
(*                                                                         *)
(* Text is modelled by TLA+ strings, character for character, with two     *)
(* stand-ins forced by the TLA+ lexer, each of the same length as the      *)
(* text it stands for:                                                     *)
(*   "~"     stands for one backtick, so "~~~" is the fence marker;        *)
(*   "|   "  stands for the 4-character tree indentation and               *)
(*   "+-- "  stands for the 4-character tree branch marker.                *)
(* A Path object is modelled by the sequence of its parts; the first part  *)
(* of an absolute path is "/".                                             *)
(***************************************************************************)
EXTENDS Integers, Sequences, FiniteSets, TLC

VARIABLES
    pc,                 \* the position of the running function
    \* collect_files
    fsys,               \* the files of the world, in directory listing order
    patterns, exclude_patterns, recursive,
    all_files, excluded_files, excluded_dirs, result_files, ci,
    \* generate_directory_structure / concatenate_files
    files, file_content, skip_prompt, prompt_file,
    structure, out_file, fi, file_type, log,
    \* split_into_chunks_with_messages
    chunk_size, lines, total_chunks, chunks, current_chunk,
    part_number, in_code_box, current_file_name, li,
    \* main and the world around it
    args,               \* the command line options main reads
    disk,               \* the files written: name -> text
    clip_ok,            \* whether the platform's clipboard tool can be run
    system,             \* what platform.system() returns
    console,            \* the input() calls so far: the question and the answer typed
    run,                \* the number of the run, among the runs on one disk
    confirm,            \* concatenate-code.py: the locals of confirm_directories
    clipboard,          \* the copies handed to the clipboard, in order
    deleted,            \* the files os.remove was called on, in order
    chunk_files, ki     \* main's list of chunk files and its loop index

vars == <<pc, fsys, ci, patterns, exclude_patterns, recursive, all_files, excluded_files,
          excluded_dirs, result_files, files, file_content, skip_prompt,
          prompt_file, structure, out_file, fi, file_type, log, chunk_size,
          lines,
          total_chunks, chunks, current_chunk, part_number, in_code_box,
          current_file_name, li, args, disk, clip_ok, system,
          console, run, confirm, clipboard, deleted,
          chunk_files, ki>>

collectVars == <<fsys, patterns, exclude_patterns, recursive, all_files,
                 excluded_files, excluded_dirs, result_files, ci>>
catVars == <<files, file_content, skip_prompt, prompt_file, structure,
             out_file, fi, file_type>>
splitVars == <<chunk_size, lines, total_chunks, chunks, current_chunk,
               part_number, in_code_box, current_file_name, li>>
worldVars == <<args, disk, clip_ok, system,
               console, run, confirm, clipboard, deleted, chunk_files, ki>>

----------------------------------------------------------------------------
(* Strings *)

Max(S) == CHOOSE m \in S : \A x \in S : x <= m
Min(S) == CHOOSE m \in S : \A x \in S : m <= x

CharAt(s, i) == SubSeq(s, i, i)

\* str.startswith
startswith(s, p) == Len(s) >= Len(p) /\ SubSeq(s, 1, Len(p)) = p

\* str.splitlines(keepends=True), for text whose only line break is "\n"
\* The positions at which the lines of s end: its line breaks and, when it
\* does not end with one, its last character
LineEnds(s) ==
    {i \in 1..Len(s) : CharAt(s, i) = "\n"} \cup (IF Len(s) > 0 THEN {Len(s)} ELSE {})

splitlines(s) ==
    LET ends == LineEnds(s)
        EndOf(k) == CHOOSE e \in ends : Cardinality({x \in ends : x <= e}) = k
    IN  [k \in 1..Cardinality(ends) |->
            SubSeq(s, IF k = 1 THEN 1 ELSE EndOf(k - 1) + 1, EndOf(k))]

\* str.strip, for the blanks and line breaks the model's text holds
IsSpace(c) == c \in {" ", "\n", "\t"}

strip(s) ==
    LET keep == {i \in 1..Len(s) : ~IsSpace(CharAt(s, i))}
    IN  IF keep = {} THEN "" ELSE SubSeq(s, Min(keep), Max(keep))

\* str.lower
Upper == <<"A", "B", "C", "D", "E", "F", "G", "H", "I", "J", "K", "L", "M",
           "N", "O", "P", "Q", "R", "S", "T", "U", "V", "W", "X", "Y", "Z">>
Lower == <<"a", "b", "c", "d", "e", "f", "g", "h", "i", "j", "k", "l", "m",
           "n", "o", "p", "q", "r", "s", "t", "u", "v", "w", "x", "y", "z">>

LowerChar(c) ==
    IF \E k \in 1..26 : Upper[k] = c
    THEN Lower[CHOOSE k \in 1..26 : Upper[k] = c]
    ELSE c

RECURSIVE LowerFrom(_, _)
LowerFrom(s, i) ==
    IF i > Len(s) THEN "" ELSE LowerChar(CharAt(s, i)) \o LowerFrom(s, i + 1)

lower(s) == LowerFrom(s, 1)

\* "".join(seq)
RECURSIVE Join(_)
Join(seq) ==
    IF seq = <<>> THEN ""
    ELSE IF Len(seq) = 1 THEN seq[1]
    ELSE LET h == Len(seq) \div 2
         IN  Join(SubSeq(seq, 1, h)) \o Join(SubSeq(seq, h + 1, Len(seq)))

RECURSIVE Flatten(_)
Flatten(seqs) ==
    IF seqs = <<>> THEN <<>>
    ELSE IF Len(seqs) = 1 THEN seqs[1]
    ELSE LET h == Len(seqs) \div 2
         IN  Flatten(SubSeq(seqs, 1, h)) \o Flatten(SubSeq(seqs, h + 1, Len(seqs)))

\* sep.join(seq)
RECURSIVE JoinWith(_, _)
JoinWith(seq, sep) ==
    IF seq = <<>> THEN ""
    ELSE IF Len(seq) = 1 THEN seq[1]
    ELSE seq[1] \o sep \o JoinWith(Tail(seq), sep)

IsPrefix(p, s) == Len(p) <= Len(s) /\ SubSeq(s, 1, Len(p)) = p

----------------------------------------------------------------------------
(* Paths: pathlib.Path *)

\* The working directory of the run, Path('.').resolve()
Cwd == <<"/", "w">>

\* str.split(sep) for a one-character separator
RECURSIVE SplitOnFrom(_, _, _)
SplitOnFrom(s, sep, from) ==
    LET hits == {i \in from..Len(s) : CharAt(s, i) = sep}
    IN  IF hits = {} THEN <<SubSeq(s, from, Len(s))>>
        ELSE <<SubSeq(s, from, Min(hits) - 1)>> \o SplitOnFrom(s, sep, Min(hits) + 1)

SplitOn(s, sep) == SplitOnFrom(s, sep, 1)

\* Path(s): the components of the string s, empty and "." components
\* dropped, the root "/" kept as the first component of an absolute path
PathOf(s) ==
    LET comps == SelectSeq(SplitOn(s, "/"), LAMBDA c : c # "" /\ c # ".")
    IN  IF startswith(s, "/") THEN <<"/">> \o comps ELSE comps

\* Path.resolve(): absolute, ".." resolved (the model's world has no symlink)
RECURSIVE Normalize(_, _)
Normalize(done, rest) ==
    IF rest = <<>> THEN done
    ELSE IF Head(rest) = ".."
         THEN Normalize(IF Len(done) > 1 THEN SubSeq(done, 1, Len(done) - 1)
                        ELSE done, Tail(rest))
         ELSE Normalize(Append(done, Head(rest)), Tail(rest))

resolve(p) ==
    IF p # <<>> /\ p[1] = "/"
    THEN Normalize(<<"/">>, Tail(p))
    ELSE Normalize(Cwd, p)

\* A slip that compares the texts of the two paths
is_relative_to_text(p, d) ==
    LET ps == IF p = <<>> THEN "" ELSE "/" \o JoinWith(Tail(p), "/")
        ds == IF d = <<>> THEN "" ELSE "/" \o JoinWith(Tail(d), "/")
    IN  startswith(ps, ds)

\* Path.is_relative_to
is_relative_to(p, d) == IsPrefix(d, p)

\* path.relative_to(root), and the path itself on ValueError
relative_to_or_self(p, root) ==
    IF is_relative_to(p, root) THEN SubSeq(p, Len(root) + 1, Len(p)) ELSE p

\* str(path)
PathStr(p) ==
    IF p = <<>> THEN "."
    ELSE IF p[1] = "/" THEN "/" \o JoinWith(Tail(p), "/")
    ELSE JoinWith(p, "/")

\* Path.suffix: the last component from its last dot, when that dot is
\* neither its first nor its last character
suffix(p) ==
    IF p = <<>> \/ p = <<"/">> THEN ""
    ELSE LET name == p[Len(p)]
             dots == {i \in 1..Len(name) : CharAt(name, i) = "."}
         IN  IF dots = {} THEN ""
             ELSE IF Max(dots) > 1 /\ Max(dots) < Len(name)
                  THEN SubSeq(name, Max(dots), Len(name))
                  ELSE ""

----------------------------------------------------------------------------
(* The syntax tagger *)

\* The dict literal, entry by entry in source order; a key written twice
\* keeps its last value
FILE_TYPE_LANGUAGES == <<
    <<".py", "python">>,
    <<".js", "javascript">>,
    <<".html", "html">>,
    <<".css", "css">>,
    <<".json", "json">>,
    <<".log", "">>,
    <<".txt", "">>,
    <<".md", "markdown">>,
    <<".xml", "xml">>,
    <<".yaml", "yaml">>,
    <<".yml", "yaml">>,
    <<".sh", "shell">>,
    <<".c", "c">>,
    <<".cpp", "cpp">>,
    <<".java", "java">>,
    <<".php", "php">>,
    <<".rb", "ruby">>,
    <<".go", "go">>,
    <<".swift", "swift">>,
    <<".rs", "rust">>,
    <<".pl", "perl">>,
    <<".ps1", "powershell">>,
    <<".bat", "batch">>,
    <<".vbs", "vbscript">>,
    <<".ini", "ini">>,
    <<".toml", "toml">>,
    <<".csv", "csv">>,
    <<".tsv", "tsv">>,
    <<".rst", "rst">>,
    <<".tex", "tex">>,
    <<".org", "org">>,
    <<".jsx", "jsx">>,
    <<".tsx", "tsx">>,
    <<".feature", "cucumber">>,
    <<".abap", "abap">>,
    <<".adb", "ada">>,
    <<".ads", "ada">>,
    <<".ada", "ada">>,
    <<".ahk", "ahk">>,
    <<".ahkl", "ahk">>,
    <<".htaccess", "apacheconf">>,
    <<"apache.conf", "apacheconf">>,
    <<"apache2.conf", "apacheconf">>,
    <<".applescript", "applescript">>,
    <<".as", "as">>,
    <<".as3", "as3">>,
    <<".asy", "asy">>,
    <<".ksh", "bash">>,
    <<".bash", "bash">>,
    <<".ebuild", "bash">>,
    <<".eclass", "bash">>,
    <<".bat", "bat">>,
    <<".cmd", "bat">>,
    <<".befunge", "befunge">>,
    <<".bmx", "blitzmax">>,
    <<".boo", "boo">>,
    <<".bf", "brainfuck">>,
    <<".b", "brainfuck">>,
    <<".c", "c">>,
    <<".h", "c">>,
    <<".cfm", "cfm">>,
    <<".cfml", "cfm">>,
    <<".cfc", "cfm">>,
    <<".tmpl", "cheetah">>,
    <<".spt", "cheetah">>,
    <<".cl", "cl">>,
    <<".lisp", "cl">>,
    <<".el", "cl">>,
    <<".clj", "clojure">>,
    <<".cljs", "clojure">>,
    <<".cmake", "cmake">>,
    <<"CMakeLists.txt", "cmake">>,
    <<".coffee", "coffeescript">>,
    <<".sh-session", "console">>,
    <<"control", "control">>,
    <<".cpp", "cpp">>,
    <<".hpp", "cpp">>,
    <<".c++", "cpp">>,
    <<".h++", "cpp">>,
    <<".cc", "cpp">>,
    <<".hh", "cpp">>,
    <<".cxx", "cpp">>,
    <<".hxx", "cpp">>,
    <<".pde", "cpp">>,
    <<".cs", "csharp">>,
    <<".css", "css">>,
    <<".pyx", "cython">>,
    <<".pxd", "cython">>,
    <<".pxi", "cython">>,
    <<".d", "d">>,
    <<".di", "d">>,
    <<".pas", "delphi">>,
    <<".diff", "diff">>,
    <<".patch", "diff">>,
    <<".dpatch", "dpatch">>,
    <<".darcspatch", "dpatch">>,
    <<".duel", "duel">>,
    <<".jbst", "duel">>,
    <<".dylan", "dylan">>,
    <<".dyl", "dylan">>,
    <<".erb", "erb">>,
    <<".erl-sh", "erl">>,
    <<".erl", "erlang">>,
    <<".hrl", "erlang">>,
    <<".evoque", "evoque">>,
    <<".factor", "factor">>,
    <<".flx", "felix">>,
    <<".flxh", "felix">>,
    <<".f", "fortran">>,
    <<".f90", "fortran">>,
    <<".s", "gas">>,
    <<".S", "gas">>,
    <<".kid", "genshi">>,
    <<".gitignore", "gitignore">>,
    <<".vert", "glsl">>,
    <<".frag", "glsl">>,
    <<".geo", "glsl">>,
    <<".plot", "gnuplot">>,
    <<".plt", "gnuplot">>,
    <<".go", "go">>,
    <<".man", "groff">>,
    <<".1", "groff">>,
    <<".2", "groff">>,
    <<".3", "groff">>,
    <<".4", "groff">>,
    <<".5", "groff">>,
    <<".6", "groff">>,
    <<".7", "groff">>,
    <<".8", "groff">>,
    <<".9", "groff">>,
    <<".haml", "haml">>,
    <<".hs", "haskell">>,
    <<".htm", "html">>,
    <<".xhtml", "html">>,
    <<".xslt", "html">>,
    <<".hx", "hx">>,
    <<".hy", "hybris">>,
    <<".hyb", "hybris">>,
    <<".cfg", "ini">>,
    <<".io", "io">>,
    <<".ik", "ioke">>,
    <<".weechatlog", "irc">>,
    <<".jade", "jade">>,
    <<".java", "java">>,
    <<".jsp", "jsp">>,
    <<".lhs", "lhs">>,
    <<".ll", "llvm">>,
    <<".lgt", "logtalk">>,
    <<".lua", "lua">>,
    <<".wlua", "lua">>,
    <<".mak", "make">>,
    <<"Makefile", "make">>,
    <<"makefile", "make">>,
    <<"Makefile.", "make">>,
    <<"GNUmakefile", "make">>,
    <<".mao", "mako">>,
    <<".maql", "maql">>,
    <<".mhtml", "mason">>,
    <<".mc", "mason">>,
    <<".mi", "mason">>,
    <<"autohandler", "mason">>,
    <<"dhandler", "mason">>,
    <<".md", "markdown">>,
    <<".mo", "modelica">>,
    <<".def", "modula2">>,
    <<".mod", "modula2">>,
    <<".moo", "moocode">>,
    <<".mu", "mupad">>,
    <<".mxml", "mxml">>,
    <<".myt", "myghty">>,
    <<"autodelegate", "myghty">>,
    <<".asm", "nasm">>,
    <<".ASM", "nasm">>,
    <<".ns2", "newspeak">>,
    <<".objdump", "objdump">>,
    <<".m", "objectivec">>,
    <<".j", "objectivej">>,
    <<".ml", "ocaml">>,
    <<".mli", "ocaml">>,
    <<".mll", "ocaml">>,
    <<".mly", "ocaml">>,
    <<".ooc", "ooc">>,
    <<".pl", "perl">>,
    <<".pm", "perl">>,
    <<".php", "php">>,
    <<".php(345)", "php">>,
    <<".ps", "postscript">>,
    <<".eps", "postscript">>,
    <<".pot", "pot">>,
    <<".po", "pot">>,
    <<".pov", "pov">>,
    <<".inc", "pov">>,
    <<".prolog", "prolog">>,
    <<".pro", "prolog">>,
    <<".pl", "prolog">>,
    <<".properties", "properties">>,
    <<".proto", "protobuf">>,
    <<".py3tb", "py3tb">>,
    <<".pytb", "pytb">>,
    <<".sc", "python">>,
    <<".tac", "python">>,
    <<".r", "r">>,
    <<".rb", "rb">>,
    <<".rbw", "rb">>,
    <<".rake", "rb">>,
    <<".gemspec", "rb">>,
    <<".rbx", "rb">>,
    <<".duby", "rb">>,
    <<".Rout", "rconsole">>,
    <<".r", "rebol">>,
    <<".r3", "rebol">>,
    <<".cw", "redcode">>,
    <<".rhtml", "rhtml">>,
    <<".rst", "rst">>,
    <<".sass", "sass">>,
    <<".scala", "scala">>,
    <<".scaml", "scaml">>,
    <<".scm", "scheme">>,
    <<".scss", "scss">>,
    <<".st", "smalltalk">>,
    <<".tpl", "smarty">>,
    <<"sources.list", "sourceslist">>,
    <<".S", "splus">>,
    <<".R", "splus">>,
    <<".sql", "sql">>,
    <<".sqlite3-console", "sqlite3">>,
    <<"squid.conf", "squidconf">>,
    <<".ssp", "ssp">>,
    <<".tcl", "tcl">>,
    <<".tcsh", "tcsh">>,
    <<".csh", "tcsh">>,
    <<".tex", "tex">>,
    <<".txt", "text">>,
    <<".v", "v">>,
    <<".vala", "vala">>,
    <<".vapi", "vala">>,
    <<".vb", "vbnet">>,
    <<".bas", "vbnet">>,
    <<".vm", "velocity">>,
    <<".fhtml", "velocity">>,
    <<".vim", "vim">>,
    <<".vimrc", "vim">>,
    <<".xqy", "xquery">>,
    <<".xquery", "xquery">>
>>

DictHas(d, k) == \E i \in 1..Len(d) : d[i][1] = k
DictGet(d, k, default) ==
    IF DictHas(d, k) THEN d[Max({i \in 1..Len(d) : d[i][1] = k})][2]
    ELSE default

\* A slip that looks the extension up as it is written
get_file_type_cased(file) == DictGet(FILE_TYPE_LANGUAGES, suffix(file), "text")

\* file is a Path
get_file_type(file) == DictGet(FILE_TYPE_LANGUAGES, lower(suffix(file)), "text")

----------------------------------------------------------------------------
(* The directory tree renderer *)

RECURSIVE Repeat(_, _)
Repeat(s, n) == IF n <= 0 THEN "" ELSE s \o Repeat(s, n - 1)

\* A slip that indents a line by its whole depth
TreeLineDeep(parts, k) == Repeat("|   ", k) \o "+-- " \o parts[k]

\* The line of the prefix parts[:k]
TreeLine(parts, k) == Repeat("|   ", k - 1) \o "+-- " \o parts[k]

InSeq(x, seq) == \E i \in 1..Len(seq) : seq[i] = x

\* A slip that appends without the test
AppendAlways(struct, line) == Append(struct, line)

\* if line not in structure: structure.append(line)
AppendIfNew(struct, line) == IF InSeq(line, struct) THEN struct ELSE Append(struct, line)

\* The inner loop, for i in range(len(parts)), from prefix length k on
RECURSIVE AddPrefixLines(_, _, _)
AddPrefixLines(struct, parts, k) ==
    IF k > Len(parts) THEN struct
    ELSE AddPrefixLines(AppendIfNew(struct, TreeLine(parts, k)), parts, k + 1)

\* The parts the renderer and the assembler use for a file
RelativeParts(file) == relative_to_or_self(resolve(PathOf(file)), resolve(PathOf(".")))

RECURSIVE TreeFrom(_, _)
TreeFrom(struct, fs) ==
    IF fs = <<>> THEN struct
    ELSE TreeFrom(AddPrefixLines(struct, RelativeParts(Head(fs)), 1), Tail(fs))

generate_directory_structure(fs) == TreeFrom(<<>>, fs)

----------------------------------------------------------------------------
(* The document assembler *)

\* The built-in preamble, abridged to its first write, its first indented
\* code box and its last write; no line of the whole text starts with the
\* fence marker or with "./"
BuiltinPreamble ==
    "You are a super helpful coding assistant!\n\n"
    \o "\n      ~~~python\n"
    \o "      Old line here\n"
    \o "      ~~~\n"
    \o "\nINSTRUCTION I am senging multiple parts, please confirm receipt of the files and let me know when you are ready for the next part.  Do not do anything else until you have all the parts.\n\n"

\* What the world holds at a path: [ok |-> TRUE, text |-> ...] for a file
\* that can be read, [ok |-> FALSE, text |-> ""] for one whose open or read
\* raises
CanRead(world, f) == f \in DOMAIN world /\ world[f].ok

\* A slip that tests skip_prompt before the prompt file
PreambleSkipFirst(world, skip, prompt) ==
    IF skip THEN ""
    ELSE IF prompt # ""
         THEN IF CanRead(world, prompt) THEN world[prompt].text \o "\n\n" ELSE ""
         ELSE BuiltinPreamble

\* The first branch of concatenate_files; prompt is "" for no --prompt-file
Preamble(world, skip, prompt) ==
    IF prompt # ""
    THEN IF CanRead(world, prompt) THEN world[prompt].text \o "\n\n" ELSE ""
    ELSE IF ~skip THEN BuiltinPreamble ELSE ""

TreeSection(fs) ==
    "\nHere is the directory structure:\n"
    \o "\n+-- ./\n"
    \o (LET directory_structure == generate_directory_structure(fs)
        IN  Join([i \in 1..Len(directory_structure) |-> directory_structure[i] \o "\n"]))
    \o "\n"

\* The path header of a file and its opening fence
FileHeader(file) ==
    "./" \o PathStr(RelativeParts(file)) \o "\n\n"
    \o "~~~" \o get_file_type(resolve(PathOf(file))) \o "\n"

\* What one turn of the loop over the files writes
FileBlock(world, file) ==
    FileHeader(file)
    \o (IF CanRead(world, file) THEN world[file].text ELSE "")
    \o "\n~~~\n\n"

\* The whole text concatenate_files writes to output_file
Document(world, fs, skip, prompt) ==
    Preamble(world, skip, prompt)
    \o TreeSection(fs)
    \o "\nHere are the files:\n\n"
    \o Join([i \in 1..Len(fs) |-> FileBlock(world, fs[i])])

----------------------------------------------------------------------------
(* The chunk splitter *)

\* A chunk is the sequence of the strings appended to it, each marked as a
\* line of the document (syn = FALSE) or as text the splitter adds
\* (syn = TRUE); the chunk's text is their concatenation
Orig(txt) == [txt |-> txt, syn |-> FALSE]
Syn(txt) == [txt |-> txt, syn |-> TRUE]

ChunkText(chunk) == Join([i \in 1..Len(chunk) |-> chunk[i].txt])

\* The two branches that track the code box, in both passes
ToggleCodeBox(line, icb) ==
    IF startswith(line, "~~~") /\ ~icb THEN TRUE
    ELSE IF startswith(line, "~~~") /\ icb THEN FALSE
    ELSE icb

\* A slip that tests the line alone, as if the buffer were empty
OverflowsLineAlone(cur, line, size) == Len(line) > size

\* if len(current_chunk) + len(line) > chunk_size
Overflows(cur, line, size) == Len(cur) + Len(line) > size

\* The loop of the pre-pass from the line ls[i] on, and its last test; cur
\* is the length of the pre-pass's current_chunk, which is all the pre-pass
\* reads of it, and count its chunk_count.  The pre-pass also tracks
\* in_code_box, with the branches of ToggleCodeBox, and never reads it.
RECURSIVE CountFrom(_, _, _, _, _)
CountFrom(ls, i, size, cur, count) ==
    IF i > Len(ls) THEN (IF cur > 0 THEN count + 1 ELSE count)
    ELSE IF cur + Len(ls[i]) > size
         THEN CountFrom(ls, i + 1, size, Len(ls[i]), count + 1)
         ELSE CountFrom(ls, i + 1, size, cur + Len(ls[i]), count)

count_chunks(content, size) == CountFrom(splitlines(content), 1, size, 0, 0)

\* A slip that numbers the footer with the part that follows
add_end_of_part_message_next(chunk, part, total, name, icb) ==
    (IF icb THEN Append(chunk, Syn("~~~\n")) ELSE chunk)
    \o <<Syn("\n" \o name \o " continued in next file\n"),
         Syn("\nEnd of part " \o ToString(part + 1) \o " of " \o ToString(total)
             \o ". Please confirm receipt and let me know when you are ready for the next part.\n")>>

add_end_of_part_message(chunk, part, total, name, icb) ==
    (IF icb THEN Append(chunk, Syn("~~~\n")) ELSE chunk)
    \o <<Syn("\n" \o name \o " continued in next file\n"),
         Syn("\nEnd of part " \o ToString(part) \o " of " \o ToString(total)
             \o ". Please confirm receipt and let me know when you are ready for the next part.\n")>>

add_start_of_part_message(chunk, part, name, icb) ==
    chunk
    \o <<Syn("\nBeginning of part " \o ToString(part) \o "\n\n"),
         Syn(name \o " (continued)\n\n")>>
    \o (IF icb THEN <<Syn("~~~" \o get_file_type(PathOf(name)) \o "\n")>> ELSE <<>>)

\* A slip that ends the last chunk the way the other chunks end
FinalChunkAsPart(chunk, part, total, icb) ==
    add_end_of_part_message(chunk, part, total, "", icb)

\* The footer of the last chunk
FinalChunk(chunk, part, total, icb) ==
    (IF icb THEN Append(chunk, Syn("~~~\n")) ELSE chunk)
    \o <<Syn("\nEnd of part " \o ToString(part) \o " of " \o ToString(total)
             \o ". This is the final part. Please confirm receipt of all parts and proceed with the analysis only after receiving this message.\n")>>

\* Path(file_path).stem and the chunk file names
stem(p) ==
    LET name == p[Len(p)]
    IN  SubSeq(name, 1, Len(name) - Len(suffix(p)))

ChunkFileName(file_path, n) ==
    stem(PathOf(file_path)) \o "_chunk_" \o ToString(n) \o suffix(PathOf(file_path))

\* The files the last loop writes, over what the disk held
WriteChunks(d, file_path, cs) ==
    [f \in DOMAIN d \cup {ChunkFileName(file_path, n) : n \in 1..Len(cs)} |->
        IF \E n \in 1..Len(cs) : f = ChunkFileName(file_path, n)
        THEN ChunkText(cs[CHOOSE n \in 1..Len(cs) : f = ChunkFileName(file_path, n)])
        ELSE d[f]]

\* A slip that assigns the line instead of appending it
AppendLineAssigns(chunk, line) == <<Orig(line)>>

\* current_chunk += line
AppendLine(chunk, line) == Append(chunk, Orig(line))

\* The pre-pass and the set-up of the main pass
SplitStart ==
    /\ pc = "split"
    /\ lines' = splitlines(disk[args.output])
    /\ total_chunks' = count_chunks(disk[args.output], chunk_size)
    /\ chunks' = <<>>
    /\ current_chunk' = <<>>
    /\ part_number' = 1
    /\ in_code_box' = FALSE
    /\ current_file_name' = ""
    /\ li' = 1
    /\ pc' = "split_loop"
    /\ UNCHANGED <<collectVars, catVars, log, chunk_size, worldVars>>

\* One turn of the main loop, for the line lines[li]
SplitLine ==
    /\ pc = "split_loop"
    /\ li <= Len(lines)
    /\ LET line == lines[li]
           icb  == ToggleCodeBox(line, in_code_box)
           over == Overflows(ChunkText(current_chunk), line, chunk_size)
           closed == add_end_of_part_message(current_chunk, part_number,
                         total_chunks, current_file_name, icb)
           part == IF over THEN part_number + 1 ELSE part_number
           cur  == IF over
                   THEN add_start_of_part_message(<<>>, part, current_file_name, icb)
                   ELSE current_chunk
       IN  /\ in_code_box' = icb
           /\ chunks' = IF over THEN Append(chunks, closed) ELSE chunks
           /\ part_number' = part
           /\ current_chunk' = AppendLine(cur, line)
           /\ current_file_name' =
                 IF startswith(line, "./") /\ ~icb THEN strip(line)
                 ELSE current_file_name
    /\ li' = li + 1
    /\ UNCHANGED <<pc, collectVars, catVars, log, chunk_size, lines,
                   total_chunks, worldVars>>

\* After the loop: the last chunk, and the chunk files
SplitFinish ==
    /\ pc = "split_loop"
    /\ li > Len(lines)
    /\ LET all == IF ChunkText(current_chunk) # ""
                  THEN Append(chunks, FinalChunk(current_chunk, part_number,
                                                 total_chunks, in_code_box))
                  ELSE chunks
       IN  /\ chunks' = all
           /\ disk' = WriteChunks(disk, args.output, all)
           /\ chunk_files' = [n \in 1..Len(all) |-> ChunkFileName(args.output, n)]
    /\ pc' = "split_done"
    /\ UNCHANGED <<collectVars, catVars, log, chunk_size, lines, total_chunks,
                   current_chunk, part_number, in_code_box, current_file_name,
                   li, args, clip_ok, system,
                   console, run, confirm, clipboard, deleted, ki>>

----------------------------------------------------------------------------
(* The file system, as glob and pathlib see it.  A listing is the sequence *)
(* of the files under the working directory, each as the parts of its path *)
(* below that directory, in the order in which a directory scan returns    *)
(* them.                                                                   *)

\* The listing of the files named by the path strings of fsq
FsPaths(fsq) == [i \in 1..Len(fsq) |-> PathOf(fsq[i])]

\* The parts of path string s below the working directory
RelParts(s) == relative_to_or_self(resolve(PathOf(s)), Cwd)

InWorld(s) == is_relative_to(resolve(PathOf(s)), Cwd)

IsFileAt(listing, s) ==
    InWorld(s) /\ LET rp == RelParts(s) IN \E i \in 1..Len(listing) : listing[i] = rp

\* os.path.isdir, Path.is_dir
IsDirAt(listing, s) ==
    InWorld(s) /\ LET rp == RelParts(s) IN \E i \in 1..Len(listing) :
        /\ IsPrefix(rp, listing[i])
        /\ Len(rp) < Len(listing[i])

\* os.path.lexists
ExistsAt(listing, s) == IsFileAt(listing, s) \/ IsDirAt(listing, s)

\* os.path.join(d, name)
PathJoin(d, name) ==
    IF d = "" THEN name
    ELSE IF CharAt(d, Len(d)) = "/" THEN d \o name
    ELSE d \o "/" \o name

RECURSIVE Dedup(_, _)
Dedup(done, rest) ==
    IF rest = <<>> THEN done
    ELSE Dedup(AppendIfNew(done, Head(rest)), Tail(rest))

\* The names a scan of directory d returns, in listing order
ListDir(listing, d) ==
    LET dp == RelParts(d)
        under == SelectSeq(listing, LAMBDA f : IsPrefix(dp, f) /\ Len(dp) < Len(f))
    IN  Dedup(<<>>, [i \in 1..Len(under) |-> under[i][Len(dp) + 1]])

\* glob.has_magic
has_magic(s) == \E i \in 1..Len(s) : CharAt(s, i) \in {"*", "?", "["}

\* fnmatch.fnmatchcase for patterns made of literal characters, "*" and "?"
RECURSIVE MatchFrom(_, _, _, _)
MatchFrom(name, j, pat, i) ==
    IF i > Len(pat) THEN j > Len(name)
    ELSE IF CharAt(pat, i) = "*"
         THEN MatchFrom(name, j, pat, i + 1)
              \/ (j <= Len(name) /\ MatchFrom(name, j + 1, pat, i))
    ELSE /\ j <= Len(name)
         /\ (CharAt(pat, i) = "?" \/ CharAt(pat, i) = CharAt(name, j))
         /\ MatchFrom(name, j + 1, pat, i + 1)

fnmatch(name, pat) == MatchFrom(name, 1, pat, 1)

\* glob._ishidden
ishidden(name) == startswith(name, ".")

\* glob._glob1: the names of directory d that match pat
Glob1(listing, d, pat, dironly) ==
    SelectSeq(ListDir(listing, d), LAMBDA n :
        /\ fnmatch(n, pat)
        /\ (ishidden(pat) \/ ~ishidden(n))
        /\ (dironly => IsDirAt(listing, PathJoin(d, n))))

\* glob._rlistdir: the directories below d, each before what it holds
RECURSIVE RListDir(_, _)
RListDir(listing, d) ==
    LET subs == Glob1(listing, d, "*", TRUE)
    IN  Flatten([i \in 1..Len(subs) |->
            <<PathJoin(d, subs[i])>> \o RListDir(listing, PathJoin(d, subs[i]))])

\* The paths one more component of the pattern leads to, from directory d
GlobComponent(listing, d, c, last, rec) ==
    IF rec /\ c = "**" THEN <<d>> \o RListDir(listing, d)
    ELSE IF c = ""
         THEN (IF d # "" /\ IsDirAt(listing, d) THEN <<PathJoin(d, "")>> ELSE <<>>)
    ELSE IF has_magic(c)
         THEN LET names == Glob1(listing, d, c, ~last)
              IN  [i \in 1..Len(names) |-> PathJoin(d, names[i])]
    ELSE IF ExistsAt(listing, PathJoin(d, c)) THEN <<PathJoin(d, c)>> ELSE <<>>

\* glob._iglob, component by component from component k of comps on
RECURSIVE GlobFrom(_, _, _, _, _)
GlobFrom(listing, dirs, comps, k, rec) ==
    IF k > Len(comps) THEN dirs
    ELSE GlobFrom(listing,
                  Flatten([i \in 1..Len(dirs) |->
                      GlobComponent(listing, dirs[i], comps[k], k = Len(comps), rec)]),
                  comps, k + 1, rec)

\* glob.glob(pathname, recursive=rec), for a relative pathname
glob(listing, pathname, rec) ==
    SelectSeq(GlobFrom(listing, <<"">>, SplitOn(pathname, "/"), 1, rec),
              LAMBDA r : r # "")

----------------------------------------------------------------------------
(* The path collector *)

\* A Python value of type str or Path in a set: values of different types
\* are never equal
StrObj(s) == [type |-> "str", v |-> s]
PathObj(parts) == [type |-> "Path", v |-> PathStr(parts)]

\* What one turn of either loop over patterns globs
GlobPattern(listing, pattern, rec) ==
    IF rec THEN glob(listing, "**/" \o pattern, TRUE)
    ELSE glob(listing, pattern, FALSE)

\* The set excluded_files after the second loop
Range(seq) == {seq[i] : i \in 1..Len(seq)}

ExcludedFiles(listing, excl, rec) ==
    {StrObj(s) : s \in UNION {Range(GlobPattern(listing, excl[i], rec)) : i \in 1..Len(excl)}}

\* The set excluded_dirs
ExcludedDirs(listing, excl) ==
    {resolve(PathOf(excl[i])) : i \in {k \in 1..Len(excl) : IsDirAt(listing, excl[k])}}

\* The test of the last loop
Kept(file, exfiles, exdirs) ==
    LET file_path == resolve(PathOf(file))
    IN  /\ PathObj(file_path) \notin exfiles
        /\ ~\E d \in exdirs : is_relative_to(file_path, d)

\* One turn of the first loop, for patterns[ci]
CollectInclude ==
    /\ pc = "collect"
    /\ ci <= Len(patterns)
    /\ all_files' = all_files \o GlobPattern(FsPaths(fsys), patterns[ci], recursive)
    /\ ci' = ci + 1
    /\ UNCHANGED <<pc, fsys, patterns, exclude_patterns, recursive, excluded_files,
                   excluded_dirs, result_files, catVars, log, splitVars, worldVars>>

\* The second loop and the set of excluded directories
CollectExclude ==
    /\ pc = "collect"
    /\ ci > Len(patterns)
    /\ excluded_files' = ExcludedFiles(FsPaths(fsys), exclude_patterns, recursive)
    /\ excluded_dirs' = ExcludedDirs(FsPaths(fsys), exclude_patterns)
    /\ pc' = "collect_filter"
    /\ UNCHANGED <<fsys, patterns, exclude_patterns, recursive, all_files,
                   result_files, ci, catVars, log, splitVars, worldVars>>

\* The last loop and the return
CollectFilter ==
    /\ pc = "collect_filter"
    /\ result_files' = SelectSeq(all_files, LAMBDA f : Kept(f, excluded_files, excluded_dirs))
    /\ pc' = "collect_done"
    /\ UNCHANGED <<fsys, patterns, exclude_patterns, recursive, all_files,
                   excluded_files, excluded_dirs, ci, catVars, log, splitVars,
                   worldVars>>

----------------------------------------------------------------------------
(* concatenate_files, step by step *)

LogError(what, file) == [level |-> "ERROR", what |-> what, file |-> file]
LogInfo(what) == [level |-> "INFO", what |-> what, file |-> ""]

\* open(output_file, 'w'), the preamble, the tree section and the header
\* of the file section
CatStart ==
    /\ pc = "cat"
    /\ disk' = (args.output :> "") @@ disk
    /\ structure' = generate_directory_structure(files)
    /\ out_file' = Preamble(file_content, skip_prompt, prompt_file)
                   \o TreeSection(files)
                   \o "\nHere are the files:\n\n"
    /\ log' = IF prompt_file # "" /\ ~CanRead(file_content, prompt_file)
              THEN Append(log, LogError("reading prompt file", prompt_file))
              ELSE log
    /\ fi' = 1
    /\ pc' = "cat_loop"
    /\ UNCHANGED <<collectVars, files, file_content, skip_prompt, prompt_file,
                   file_type, splitVars, args, clip_ok, system,
                   console, run, confirm, clipboard, deleted, chunk_files, ki>>

\* A slip that lets the read error of one file end the function
CatFileRaises ==
    /\ pc = "cat_loop"
    /\ fi <= Len(files)
    /\ file_type' = get_file_type(resolve(PathOf(files[fi])))
    /\ IF CanRead(file_content, files[fi])
       THEN /\ out_file' = out_file \o FileBlock(file_content, files[fi])
            /\ fi' = fi + 1
            /\ UNCHANGED <<pc, disk>>
       ELSE /\ out_file' = out_file \o FileHeader(files[fi])
            /\ disk' = (args.output :> out_file') @@ disk
            /\ pc' = "cat_done"
            /\ UNCHANGED fi
    /\ UNCHANGED <<collectVars, files, file_content, skip_prompt, prompt_file,
                   structure, log, splitVars, args, clip_ok, system,
                   console, run, confirm, clipboard, deleted,
                   chunk_files, ki>>

\* One turn of the loop over the files, for files[fi]
CatFile ==
    /\ pc = "cat_loop"
    /\ fi <= Len(files)
    /\ file_type' = get_file_type(resolve(PathOf(files[fi])))
    /\ out_file' = out_file \o FileBlock(file_content, files[fi])
    /\ log' = IF CanRead(file_content, files[fi]) THEN log
              ELSE Append(log, LogError("reading file", files[fi]))
    /\ fi' = fi + 1
    /\ UNCHANGED <<pc, collectVars, files, file_content, skip_prompt, prompt_file,
                   structure, splitVars, worldVars>>

\* The end of the with block: the text is on the disk
CatEnd ==
    /\ pc = "cat_loop"
    /\ fi > Len(files)
    /\ disk' = (args.output :> out_file) @@ disk
    /\ pc' = "cat_done"
    /\ UNCHANGED <<collectVars, catVars, log, splitVars, args, clip_ok, system,
                   console, run, confirm,
                   clipboard, deleted, chunk_files, ki>>

----------------------------------------------------------------------------
(* main *)

\* Up to the call of collect_files
MainStart ==
    /\ pc = "main"
    /\ all_files' = <<>>
    /\ ci' = 1
    /\ pc' = "collect"
    /\ UNCHANGED <<fsys, patterns, exclude_patterns, recursive, excluded_files,
                   excluded_dirs, result_files, catVars, log, splitVars, worldVars>>

\* A slip that goes on without the test for an empty list
MainFilesAny ==
    /\ pc = "collect_done"
    /\ files' = result_files
    /\ pc' = "cat"
    /\ UNCHANGED <<collectVars, file_content, skip_prompt, prompt_file, structure,
                   out_file, fi, file_type, log, splitVars, worldVars>>

\* files = collect_files(...) and the test for an empty list
MainFiles ==
    /\ pc = "collect_done"
    /\ files' = result_files
    /\ IF result_files = <<>>
       THEN /\ log' = Append(log, LogError("no files found", ""))
            /\ pc' = "done"
       ELSE /\ pc' = "cat"
            /\ UNCHANGED log
    /\ UNCHANGED <<collectVars, file_content, skip_prompt, prompt_file, structure,
                   out_file, fi, file_type, splitVars, worldVars>>

\* After concatenate_files: the call of the splitter
MainSplit ==
    /\ pc = "cat_done"
    /\ log' = Append(log, LogInfo("concatenation completed"))
    /\ pc' = "split"
    /\ UNCHANGED <<collectVars, catVars, splitVars, worldVars>>

\* What the operator may type at a question
Answers == {"", " Yes", "no"}

\* One input() call: the question and what the operator typed
Asked(q, a) == [q |-> q, a |-> a]

\* input(...).strip().lower() in ['yes', 'y', '']
SaysYes(a) == lower(strip(a)) \in {"yes", "y", ""}

\* A slip that puts the question about deleting outside the branch of the
\* clipboard
MainAskCopyThenDelete ==
    /\ pc = "split_done"
    /\ log' = Append(log, LogInfo("output file split"))
    /\ IF args.copy
       THEN /\ pc' = "copy"
            /\ UNCHANGED console
       ELSE \E a \in Answers :
               /\ console' = Append(console, Asked("copy", a))
               /\ pc' = IF SaysYes(a) THEN "copy" ELSE "ask_delete"
    /\ ki' = 1
    /\ UNCHANGED <<collectVars, catVars, splitVars, args, disk, clip_ok, system,
                   run, confirm, clipboard, deleted, chunk_files>>

\* After the splitter: the question about the clipboard, not asked with
\* --copy; a is the operator's answer
MainAskCopy ==
    /\ pc = "split_done"
    /\ log' = Append(log, LogInfo("output file split"))
    /\ IF args.copy
       THEN /\ pc' = "copy"
            /\ UNCHANGED console
       ELSE \E a \in Answers :
               /\ console' = Append(console, Asked("copy", a))
               /\ pc' = IF SaysYes(a) THEN "copy" ELSE "done"
    /\ ki' = 1
    /\ UNCHANGED <<collectVars, catVars, splitVars, args, disk, clip_ok, system,
                   run, confirm, clipboard, deleted, chunk_files>>

\* copy_to_clipboard: the platform's tool is run on Linux, Darwin and
\* Windows, and the exception of a tool that cannot be run is caught and
\* logged; on any other platform no tool is run and nothing is logged
copy_to_clipboard(sys, tool_ok) ==
    LET supported == sys \in {"Linux", "Darwin", "Windows"}
    IN  [copied |-> supported /\ tool_ok, raised |-> supported /\ ~tool_ok]

\* A slip that waits for Enter after the last chunk too
MainCopyChunkWaits ==
    /\ pc = "copy"
    /\ ki <= Len(chunk_files)
    /\ LET res == copy_to_clipboard(system, clip_ok)
       IN  /\ clipboard' = Append(clipboard,
                               [file |-> chunk_files[ki], text |-> disk[chunk_files[ki]],
                                ok |-> res.copied])
           /\ log' = IF res.raised
                     THEN Append(log, LogError("copying to clipboard", chunk_files[ki]))
                     ELSE log
    /\ pc' = "wait_enter"
    /\ UNCHANGED <<collectVars, catVars, splitVars, args, disk, clip_ok, system,
                   console, run, confirm, deleted,
                   chunk_files, ki>>

\* One turn of the copy loop, for chunk_files[ki], up to its input() call
MainCopyChunk ==
    /\ pc = "copy"
    /\ ki <= Len(chunk_files)
    /\ LET res == copy_to_clipboard(system, clip_ok)
       IN  /\ clipboard' = Append(clipboard,
                               [file |-> chunk_files[ki], text |-> disk[chunk_files[ki]],
                                ok |-> res.copied])
           /\ log' = IF res.raised
                     THEN Append(log, LogError("copying to clipboard", chunk_files[ki]))
                     ELSE log
    /\ pc' = IF ki < Len(chunk_files) THEN "wait_enter" ELSE "ask_delete"
    /\ UNCHANGED <<collectVars, catVars, splitVars, args, disk, clip_ok, system,
                   console, run, confirm, deleted,
                   chunk_files, ki>>

\* The operator presses Enter: input("Press Enter to copy chunk ...")
\* returns, whatever was typed, and the loop goes on to the next chunk file
MainEnter ==
    /\ pc = "wait_enter"
    /\ console' = Append(console, Asked("enter", ""))
    /\ ki' = ki + 1
    /\ pc' = "copy"
    /\ UNCHANGED <<collectVars, catVars, log, splitVars, args, disk, clip_ok, system,
                   run, confirm, clipboard, deleted, chunk_files>>

\* A slip that removes the whole document with the chunk files
MainDeleteOutput ==
    /\ pc = "ask_delete"
    /\ \E a \in Answers :
          /\ console' = IF args.delete_chunks THEN console
                        ELSE Append(console, Asked("delete", a))
          /\ IF args.delete_chunks \/ SaysYes(a)
             THEN /\ deleted' = deleted \o chunk_files
                  /\ disk' = [f \in {} |-> ""]
             ELSE UNCHANGED <<deleted, disk>>
    /\ pc' = "done"
    /\ UNCHANGED <<collectVars, catVars, log, splitVars, args, clip_ok, system,
                   run, confirm, clipboard, chunk_files, ki>>

\* The question about deleting, not asked with --delete-chunks, and the
\* loop of os.remove
MainDelete ==
    /\ pc = "ask_delete"
    /\ \E a \in Answers :
          /\ console' = IF args.delete_chunks THEN console
                        ELSE Append(console, Asked("delete", a))
          /\ IF args.delete_chunks \/ SaysYes(a)
             THEN /\ deleted' = deleted \o chunk_files
                  /\ disk' = [f \in DOMAIN disk \ {chunk_files[n] : n \in 1..Len(chunk_files)}
                                  |-> disk[f]]
             ELSE UNCHANGED <<deleted, disk>>
    /\ pc' = "done"
    /\ UNCHANGED <<collectVars, catVars, log, splitVars, args, clip_ok, system,
                   run, confirm, clipboard, chunk_files, ki>>

----------------------------------------------------------------------------
(* The world of a run and the bounds of the model *)

MaxFiles == 2
NumChunkSizes == 12
ChunkStep == 17
MaxPatterns == 2
MaxExcludes == 1
MaxTreeFiles == 3
MainChunk == 90

\* The default of --chunk-size
CHUNK_SIZE == 100000

\* What reading each path gives; b/gone.py stands for a file that is there
\* when the patterns are globbed and whose open or read raises, missing.txt
\* for a prompt file that is not there; r.md holds a code box of its own and
\* u.md one that is opened and never closed
World ==
    ("a.py" :> [ok |-> TRUE, text |-> "x = 1\ny = 2\n"])
    @@ ("b/c.js" :> [ok |-> TRUE, text |-> "f()"])
    @@ ("b/gone.py" :> [ok |-> FALSE, text |-> ""])
    @@ ("b2/n.py" :> [ok |-> TRUE, text |-> "n = 0\n"])
    @@ ("r.md" :> [ok |-> TRUE, text |-> "~~~\nhi\n~~~\n"])
    @@ ("u.md" :> [ok |-> TRUE, text |-> "~~~\nopen\n"])
    @@ ("prompt.txt" :> [ok |-> TRUE, text |-> "Review these files.\n"])
    @@ ("missing.txt" :> [ok |-> FALSE, text |-> ""])

\* The files under the working directory, in the order of a directory scan
FsOrder == <<"a.py", "b/c.js", "b/gone.py", "b2/n.py", "prompt.txt", "r.md", "u.md">>

Reverse(seq) == [i \in 1..Len(seq) |-> seq[Len(seq) + 1 - i]]

Listings == {FsOrder, Reverse(FsOrder)}

\* The sequences over S of length lo..hi
SeqsOf(S, lo, hi) == UNION {[1..n -> S] : n \in lo..hi}

NoRepeat(seq) == \A i, j \in 1..Len(seq) : i # j => seq[i] # seq[j]

SourceFiles == {"a.py", "b/c.js", "b/gone.py", "r.md", "u.md"}

\* The lists of distinct files of length 1..MaxFiles
FileLists == {fl \in SeqsOf(SourceFiles, 1, MaxFiles) : NoRepeat(fl)}

ChunkSizes == {ChunkStep * k : k \in 1..NumChunkSizes}

IncludePatterns == {"*.py", "a*", "./*.py", "b*/*"}
ExcludePatterns == {"a.py", "b", "b/", "*.js"}

TreeFiles == {"a/b/x.py", "a/b/y.py", "a/z.py", "./c.py", "a/x/f.py", "b/x/g.py", "/etc/h.py"}

EmptyDisk == [f \in {} |-> ""]

DefaultArgs == [output |-> "output.md", copy |-> FALSE, delete_chunks |-> FALSE]

IdleCollect ==
    /\ fsys = FsOrder
    /\ patterns = <<>> /\ exclude_patterns = <<>> /\ recursive = FALSE
    /\ all_files = <<>> /\ excluded_files = {} /\ excluded_dirs = {}
    /\ result_files = <<>> /\ ci = 1

IdleCat ==
    /\ files = <<>> /\ file_content = World /\ skip_prompt = TRUE
    /\ prompt_file = "" /\ structure = <<>> /\ out_file = "" /\ fi = 1
    /\ file_type = ""

IdleSplit ==
    /\ lines = <<>> /\ total_chunks = 0 /\ chunks = <<>>
    /\ current_chunk = <<>> /\ part_number = 1 /\ in_code_box = FALSE
    /\ current_file_name = "" /\ li = 1

\* concatenate-code.py: the locals of confirm_directories before its loop
IdleConfirm ==
    [directories |-> <<>>, included_files |-> <<>>, excluded_directories |-> {},
     di |-> 1]

IdleWorld ==
    /\ args = DefaultArgs /\ disk = EmptyDisk /\ clip_ok = TRUE /\ system = "Linux"
    /\ console = <<>> /\ run = 1 /\ confirm = IdleConfirm
    /\ clipboard = <<>> /\ deleted = <<>> /\ chunk_files = <<>> /\ ki = 1

----------------------------------------------------------------------------
(* collect_files on its own *)

InitCollect ==
    /\ pc = "collect"
    /\ fsys \in Listings
    /\ patterns \in SeqsOf(IncludePatterns, 1, MaxPatterns)
    /\ exclude_patterns \in SeqsOf(ExcludePatterns, 0, MaxExcludes)
    /\ recursive \in BOOLEAN
    /\ all_files = <<>> /\ excluded_files = {} /\ excluded_dirs = {}
    /\ result_files = <<>> /\ ci = 1
    /\ IdleCat /\ IdleSplit /\ IdleWorld
    /\ log = <<>>
    /\ chunk_size = CHUNK_SIZE

NextCollect == CollectInclude \/ CollectExclude \/ CollectFilter

SpecCollect == InitCollect /\ [][NextCollect]_vars

----------------------------------------------------------------------------
(* generate_directory_structure on its own *)

GenTree ==
    /\ pc = "tree"
    /\ structure' = generate_directory_structure(files)
    /\ pc' = "tree_done"
    /\ UNCHANGED <<collectVars, files, file_content, skip_prompt, prompt_file,
                   out_file, fi, file_type, log, splitVars, worldVars>>

InitTree ==
    /\ pc = "tree"
    /\ IdleCollect
    /\ files \in SeqsOf(TreeFiles, 0, MaxTreeFiles)
    /\ file_content = World /\ skip_prompt = TRUE /\ prompt_file = ""
    /\ structure = <<>> /\ out_file = "" /\ fi = 1 /\ file_type = ""
    /\ IdleSplit /\ IdleWorld
    /\ log = <<>>
    /\ chunk_size = CHUNK_SIZE

NextTree == GenTree

SpecTree == InitTree /\ [][NextTree]_vars

----------------------------------------------------------------------------
(* get_file_type on its own *)

\* The names get_file_type is called on: each stem with each extension
TagStems == {"a", "d.v/a", ".bashrc", "Makefile", "makefile", "GNUmakefile",
             "CMakeLists", "/usr/src/x.v1"}
TagExts == {"", ".py", ".PY", ".Py", ".js", ".Js", ".txt", ".TXT", ".md",
            ".mD", ".mak", ".zzz"}
TagNames == {st \o e : st \in TagStems, e \in TagExts}

TagFile ==
    /\ pc = "tag"
    /\ file_type' = get_file_type(PathOf(files[1]))
    /\ pc' = "tag_done"
    /\ UNCHANGED <<collectVars, files, file_content, skip_prompt, prompt_file,
                   structure, out_file, fi, log, splitVars, worldVars>>

InitTag ==
    /\ pc = "tag"
    /\ IdleCollect
    /\ files \in {<<name>> : name \in TagNames}
    /\ file_content = World /\ skip_prompt = TRUE /\ prompt_file = ""
    /\ structure = <<>> /\ out_file = "" /\ fi = 1 /\ file_type = ""
    /\ IdleSplit /\ IdleWorld
    /\ log = <<>>
    /\ chunk_size = CHUNK_SIZE

NextTag == TagFile

SpecTag == InitTag /\ [][NextTag]_vars

----------------------------------------------------------------------------
(* concatenate_files on its own *)

InitCat ==
    /\ pc = "cat"
    /\ IdleCollect
    /\ files \in FileLists
    /\ file_content = World
    /\ skip_prompt \in BOOLEAN
    /\ prompt_file \in {"", "prompt.txt", "missing.txt"}
    /\ structure = <<>> /\ out_file = "" /\ fi = 1 /\ file_type = ""
    /\ IdleSplit /\ IdleWorld
    /\ log = <<>>
    /\ chunk_size = CHUNK_SIZE

NextCat == CatStart \/ CatFile \/ CatEnd

SpecCat == InitCat /\ [][NextCat]_vars

----------------------------------------------------------------------------
(* The splitter on its own, on a document concatenate_files has written *)

InitSplit ==
    /\ pc = "split"
    /\ IdleCollect
    /\ files \in FileLists
    /\ file_content = World
    /\ skip_prompt \in BOOLEAN
    /\ prompt_file \in {"", "prompt.txt"}
    /\ skip_prompt => prompt_file = ""
    /\ structure = generate_directory_structure(files)
    /\ out_file = Document(World, files, skip_prompt, prompt_file)
    /\ fi = Len(files) + 1
    /\ file_type = get_file_type(resolve(PathOf(files[Len(files)])))
    /\ log = <<>>
    /\ chunk_size \in ChunkSizes
    /\ IdleSplit
    /\ args = DefaultArgs
    /\ disk = (args.output :> out_file)
    /\ clip_ok = TRUE /\ system = "Linux" /\ clipboard = <<>> /\ deleted = <<>>
    /\ console = <<>> /\ run = 1 /\ confirm = IdleConfirm
    /\ chunk_files = <<>> /\ ki = 1

NextSplit == SplitStart \/ SplitLine \/ SplitFinish

SpecSplit == InitSplit /\ [][NextSplit]_vars

----------------------------------------------------------------------------
(* concatenate-code.py: confirm_directories on its own *)

\* The characters of the paths of the model, in the order of their code
\* points, which is the order sorted() compares strings by
CodeOrder == "./0123456789_abcdefghijklmnopqrstuvwxyz"

CodeOf(c) == CHOOSE i \in 1..Len(CodeOrder) : CharAt(CodeOrder, i) = c

\* a < b for two strings, as Python compares them
StrLess(a, b) ==
    \/ Len(a) < Len(b) /\ SubSeq(b, 1, Len(a)) = a
    \/ \E i \in 1..Min({Len(a), Len(b)}) :
          /\ SubSeq(a, 1, i - 1) = SubSeq(b, 1, i - 1)
          /\ CodeOf(CharAt(a, i)) < CodeOf(CharAt(b, i))

\* sorted(S) for a set of strings
Sorted(S) ==
    [k \in 1..Cardinality(S) |->
        CHOOSE x \in S : Cardinality({y \in S : StrLess(y, x)}) = k - 1]

\* os.path.dirname of a relative path: what is before its last "/"
dirname(file) ==
    LET slashes == {i \in 1..Len(file) : CharAt(file, i) = "/"}
    IN  IF slashes = {} THEN "" ELSE SubSeq(file, 1, Max(slashes) - 1)

\* What the operator may type at a question of concatenate-code.py, and
\* include_directory.lower() in ["y", "yes", ""]
ConfirmAnswers == {"", "YES", "n"}

ConfirmYes(a) == lower(a) \in {"y", "yes", ""}

\* The question of prompt_include_directory
DirectoryQuestion(directory) == "include directory " \o directory

\* prompt_include_directory, up to its input() call: whether the directory
\* is excluded without a question
AutoExcluded(directory, excluded_directories) ==
    \E excluded \in excluded_directories : startswith(directory, excluded)

\* [file for file in files if file.startswith(directory) and file not in included_files]
FilesUnder(fs, directory, included_files) ==
    SelectSeq(fs, LAMBDA file : startswith(file, directory) /\ ~InSeq(file, included_files))

\* The first lines of confirm_directories
ConfirmStart ==
    /\ pc = "confirm"
    /\ confirm' = [directories |-> Sorted({dirname(files[i]) : i \in 1..Len(files)}),
                   included_files |-> <<>>,
                   excluded_directories |-> {},
                   di |-> 1]
    /\ pc' = "confirm_loop"
    /\ UNCHANGED <<collectVars, catVars, log, splitVars, args, disk, clip_ok, system,
                   console, run, clipboard, deleted, chunk_files, ki>>

\* One turn of the loop, for directories[di]; a is the operator's answer
\* when the question is asked
ConfirmDirectory ==
    /\ pc = "confirm_loop"
    /\ confirm.di <= Len(confirm.directories)
    /\ LET directory == confirm.directories[confirm.di]
           Include == [confirm EXCEPT
                          !.included_files =
                              @ \o FilesUnder(files, directory, confirm.included_files),
                          !.di = @ + 1]
           Exclude == [confirm EXCEPT
                          !.excluded_directories = @ \cup {directory},
                          !.di = @ + 1]
       IN  IF AutoExcluded(directory, confirm.excluded_directories)
           THEN /\ confirm' = Exclude
                /\ UNCHANGED console
           ELSE \E a \in ConfirmAnswers :
                   /\ console' = Append(console, Asked(DirectoryQuestion(directory), a))
                   /\ confirm' = IF ConfirmYes(a) THEN Include ELSE Exclude
    /\ UNCHANGED <<pc, collectVars, catVars, log, splitVars, args, disk, clip_ok, system,
                   run, clipboard, deleted, chunk_files, ki>>

\* return included_files, excluded_directories
ConfirmReturn ==
    /\ pc = "confirm_loop"
    /\ confirm.di > Len(confirm.directories)
    /\ pc' = "confirm_done"
    /\ UNCHANGED <<collectVars, catVars, log, splitVars, worldVars>>

\* The files under the starting directory
FsConfirm == <<"d.py", "src/a.py", "src/e.py", "src/sub/b.py", "src2/c.py">>

\* The files find_files may return, in two orders of os.walk, which lists
\* the files of a directory before it goes down into its subdirectories
WalkOrders ==
    {FsConfirm, <<"d.py", "src2/c.py", "src/a.py", "src/e.py", "src/sub/b.py">>}

\* The files of a walk that have one of the extensions asked for, or that
\* are there at all
ConfirmFileLists ==
    {SelectSeq(w, LAMBDA f : f \in S) : w \in WalkOrders, S \in SUBSET Range(FsConfirm)} \ {<<>>}

InitConfirm ==
    /\ pc = "confirm"
    /\ IdleCollect
    /\ files \in ConfirmFileLists
    /\ file_content = World /\ skip_prompt = TRUE /\ prompt_file = ""
    /\ structure = <<>> /\ out_file = "" /\ fi = 1 /\ file_type = ""
    /\ log = <<>>
    /\ chunk_size = CHUNK_SIZE
    /\ IdleSplit /\ IdleWorld

NextConfirm == ConfirmStart \/ ConfirmDirectory \/ ConfirmReturn

SpecConfirm == InitConfirm /\ [][NextConfirm]_vars

----------------------------------------------------------------------------
(* Runs of the assembler and the splitter, one after the other, on one     *)
(* disk and with one output name                                           *)

MaxRuns == 2

RunFileLists == {<<"a.py">>, <<"a.py", "b/c.js">>}

RunChunkSizes == {ChunkStep * k : k \in {1, 3, NumChunkSizes}}

\* A run ends after the splitter, without delivery and without deletion
\* (the operator answers no to the question about the clipboard), and the
\* program is started again with other files and another chunk size; the
\* new process has nothing of the old one but the disk
RunAgain ==
    /\ pc = "split_done"
    /\ run < MaxRuns
    /\ run' = run + 1
    /\ files' \in RunFileLists
    /\ chunk_size' \in RunChunkSizes
    /\ structure' = <<>> /\ out_file' = "" /\ fi' = 1 /\ file_type' = ""
    /\ log' = <<>>
    /\ lines' = <<>> /\ total_chunks' = 0 /\ chunks' = <<>>
    /\ current_chunk' = <<>> /\ part_number' = 1 /\ in_code_box' = FALSE
    /\ current_file_name' = "" /\ li' = 1
    /\ chunk_files' = <<>> /\ ki' = 1
    /\ pc' = "cat"
    /\ UNCHANGED <<collectVars, file_content, skip_prompt, prompt_file, args, disk,
                   clip_ok, system, console, confirm, clipboard, deleted>>

InitRuns ==
    /\ pc = "cat"
    /\ IdleCollect
    /\ files \in RunFileLists
    /\ file_content = World /\ skip_prompt = TRUE /\ prompt_file = ""
    /\ structure = <<>> /\ out_file = "" /\ fi = 1 /\ file_type = ""
    /\ log = <<>>
    /\ chunk_size \in RunChunkSizes
    /\ IdleSplit /\ IdleWorld

NextRuns ==
    \/ CatStart \/ CatFile \/ CatEnd
    \/ MainSplit
    \/ SplitStart \/ SplitLine \/ SplitFinish
    \/ RunAgain

SpecRuns == InitRuns /\ [][NextRuns]_vars

----------------------------------------------------------------------------
(* A run of main *)

\* What platform.system() may return; FreeBSD stands for a platform that
\* copy_to_clipboard has no branch for
Systems == {"Linux", "Darwin", "Windows", "FreeBSD"}

MainPatterns == {<<"*.py">>, <<"*.zip">>, <<"b/*">>, <<"*.py", "a*">>}
MainExcludes == {<<>>, <<"b">>}

Init ==
    /\ pc = "main"
    /\ fsys = FsOrder
    /\ patterns \in MainPatterns
    /\ exclude_patterns \in MainExcludes
    /\ recursive \in BOOLEAN
    /\ all_files = <<>> /\ excluded_files = {} /\ excluded_dirs = {}
    /\ result_files = <<>> /\ ci = 1
    /\ files = <<>> /\ file_content = World
    /\ skip_prompt = TRUE /\ prompt_file = ""
    /\ structure = <<>> /\ out_file = "" /\ fi = 1 /\ file_type = ""
    /\ log = <<>>
    /\ chunk_size \in {MainChunk, CHUNK_SIZE}
    /\ IdleSplit
    /\ args \in [output : {"output.md"}, copy : BOOLEAN, delete_chunks : BOOLEAN]
    /\ disk = EmptyDisk
    /\ clip_ok \in BOOLEAN
    /\ system \in Systems
    /\ console = <<>> /\ run = 1 /\ confirm = IdleConfirm
    /\ clipboard = <<>> /\ deleted = <<>> /\ chunk_files = <<>> /\ ki = 1

Next ==
    \/ MainStart
    \/ CollectInclude \/ CollectExclude \/ CollectFilter
    \/ MainFiles
    \/ CatStart \/ CatFile \/ CatEnd
    \/ MainSplit
    \/ SplitStart \/ SplitLine \/ SplitFinish
    \/ MainAskCopy \/ MainCopyChunk \/ MainEnter \/ MainDelete

Spec == Init /\ [][Next]_vars

----------------------------------------------------------------------------
(* Properties of the chunk splitter, under SpecSplit *)

\* The text of chunk file n, read back from the disk
ChunkFile(n) == disk[ChunkFileName(args.output, n)]

\* The number of lines of a text that begin with the fence marker
FenceCount(text) ==
    LET ls == splitlines(text)
    IN  Cardinality({i \in 1..Len(ls) : startswith(ls[i], "~~~")})

\* No line of the files' contents, or of the prompt file, begins with the
\* fence marker
NoFenceInContents ==
    /\ \A i \in 1..Len(files) : FenceCount(World[files[i]].text) = 0
    /\ prompt_file # "" => FenceCount(World[prompt_file].text) = 0

\* The document lines of the chunks, in order, synthetic text removed
OrigLines(cs) ==
    LET kept == SelectSeq(Flatten(cs), LAMBDA piece : ~piece.syn)
    IN  [i \in 1..Len(kept) |-> kept[i].txt]

\* C1: fence balance. When no file content holds a fence line, every chunk
\* file written holds an even number of lines that begin with the fence
\* marker.
C1_FenceBalance ==
    (pc = "split_done" /\ NoFenceInContents)
        => \A n \in 1..Len(chunks) : FenceCount(ChunkFile(n)) % 2 = 0

\* C2: reassembly. The chunks in order, their synthetic text removed, are
\* the lines of the document in order, each chunk file is the text of its
\* chunk, and no line of a chunk file runs across two appended strings.
C2_Reassembly ==
    pc = "split_done"
        => /\ OrigLines(chunks) = splitlines(disk[args.output])
           /\ \A n \in 1..Len(chunks) :
                 /\ ChunkFile(n) = ChunkText(chunks[n])
                 /\ splitlines(ChunkFile(n))
                        = Flatten([i \in 1..Len(chunks[n]) |-> splitlines(chunks[n][i].txt)])

\* A run that ended with three chunks or more, one of which starts with a
\* reopened fence
C2_Witness ==
    /\ pc = "split_done"
    /\ Len(chunks) >= 3
    /\ \E n \in 1..Len(chunks) :
          /\ Len(chunks[n]) >= 4
          /\ chunks[n][3].syn
          /\ startswith(chunks[n][3].txt, "~~~")

\* C3: chunk count stability. The total of the pre-pass is the number of
\* chunks the main pass writes.
C3_CountStable ==
    pc = "split_done" => total_chunks = Len(chunks)

\* C4: chunk size bound. Every chunk file written is at most chunk_size
\* characters long.
C4_SizeBound ==
    pc = "split_done" => \A n \in 1..Len(chunks) : Len(ChunkFile(n)) <= chunk_size

----------------------------------------------------------------------------
(* Properties of the path collector, under SpecCollect *)

\* Every match of the include patterns, in the order of the patterns
AllMatches ==
    Flatten([i \in 1..Len(patterns) |-> GlobPattern(FsPaths(fsys), patterns[i], recursive)])

\* The resolved paths the exclude patterns match
ExcludeMatches ==
    {resolve(PathOf(s)) :
        s \in UNION {Range(GlobPattern(FsPaths(fsys), exclude_patterns[k], recursive)) :
                     k \in 1..Len(exclude_patterns)}}

\* The exclude patterns that name an existing directory, resolved
NamedDirs ==
    {resolve(PathOf(exclude_patterns[k])) :
        k \in {n \in 1..Len(exclude_patterns) : IsDirAt(FsPaths(fsys), exclude_patterns[n])}}

UnderNamedDir(file) == \E d \in NamedDirs : IsPrefix(d, resolve(PathOf(file)))

\* C5: exclusion precedence. No file of the result is matched by an exclude
\* pattern, the file and the matches compared by resolved path.
C5_ExclusionPrecedence ==
    pc = "collect_done"
        => \A i \in 1..Len(result_files) :
              resolve(PathOf(result_files[i])) \notin ExcludeMatches

\* C6: deduplication and order. No path is returned twice, and the result
\* keeps the order in which the patterns first matched its files.
C6_DedupOrder ==
    pc = "collect_done"
        => /\ NoRepeat([i \in 1..Len(result_files) |-> resolve(PathOf(result_files[i]))])
           /\ result_files
                = SelectSeq(Dedup(<<>>, AllMatches), LAMBDA f : InSeq(f, result_files))

\* C7: directory exclusion. No file of the result lies under an exclude
\* pattern that names an existing directory, and the matched files that are
\* under no such directory and match no exclude pattern are all in the
\* result, in the order in which they were matched.
C7_DirectoryExclusion ==
    pc = "collect_done"
        => /\ \A i \in 1..Len(result_files) : ~UnderNamedDir(result_files[i])
           /\ SelectSeq(result_files, LAMBDA f :
                  ~UnderNamedDir(f) /\ resolve(PathOf(f)) \notin ExcludeMatches)
              = SelectSeq(AllMatches, LAMBDA f :
                  ~UnderNamedDir(f) /\ resolve(PathOf(f)) \notin ExcludeMatches)

\* A call that dropped a file under the excluded directory b and kept a
\* file of the directory b2
C7_Witness ==
    /\ pc = "collect_done"
    /\ NamedDirs # {}
    /\ \E i \in 1..Len(all_files) :
          UnderNamedDir(all_files[i]) /\ ~InSeq(all_files[i], result_files)
    /\ InSeq("b2/n.py", result_files)

----------------------------------------------------------------------------
(* Properties of the tree renderer, under SpecTree *)

\* The directories above the files, and the files, as parts
AncestorDirs(fl) ==
    UNION {{SubSeq(RelativeParts(fl[i]), 1, k) : k \in 1..(Len(RelativeParts(fl[i])) - 1)} :
           i \in 1..Len(fl)}

FilePaths(fl) == {RelativeParts(fl[i]) : i \in 1..Len(fl)}

IsChain(D) == \A a, b \in D : IsPrefix(a, b) \/ IsPrefix(b, a)

\* C8: tree dedup. No line text is emitted twice, the line of a directory
\* above the files is there exactly once, and files whose directories form
\* one chain of m directories give m lines plus one line for each file.
C8_TreeDedup ==
    /\ NoRepeat(structure)
    /\ pc = "tree_done"
        => /\ \A d \in AncestorDirs(files) :
                 Cardinality({i \in 1..Len(structure) : structure[i] = TreeLine(d, Len(d))}) = 1
           /\ IsChain(AncestorDirs(files))
                 => Len(structure)
                        = Cardinality(AncestorDirs(files)) + Cardinality(FilePaths(files))
           /\ files = <<"a/b/x.py", "a/b/y.py">> => Len(structure) = 4

\* The tree of two files of one directory, two levels down
C8_Witness ==
    /\ pc = "tree_done"
    /\ files = <<"a/b/x.py", "a/b/y.py">>
    /\ structure = <<"+-- a", "|   +-- b", "|   |   +-- x.py", "|   |   +-- y.py">>

----------------------------------------------------------------------------
(* Properties of the assembler, under SpecCat *)

EndsWith(s, t) == Len(s) >= Len(t) /\ SubSeq(s, Len(s) - Len(t) + 1, Len(s)) = t

\* The block of a file: its path header, its opening fence, its content
\* when it can be read, its closing fence
ExpectedBlock(file) ==
    "./" \o PathStr(RelativeParts(file)) \o "\n\n"
    \o "~~~" \o get_file_type(resolve(PathOf(file))) \o "\n"
    \o (IF World[file].ok THEN World[file].text ELSE "")
    \o "\n~~~\n\n"

\* C9: unreadable file. At the end every file of the list has been
\* processed, the text written ends with the blocks of all the files in
\* order, the block of a file that cannot be read being its header and a
\* fence pair around nothing, and an error is logged for each such file.
C9_UnreadableFile ==
    pc = "cat_done"
        => /\ fi = Len(files) + 1
           /\ disk[args.output] = out_file
           /\ EndsWith(out_file, Join([i \in 1..Len(files) |-> ExpectedBlock(files[i])]))
           /\ \A i \in 1..Len(files) :
                 ~World[files[i]].ok
                     => \E k \in 1..Len(log) : log[k] = LogError("reading file", files[i])

\* A run in which the file that cannot be read is followed by another file
C9_Witness ==
    /\ pc = "cat_done"
    /\ Len(files) = 2
    /\ ~World[files[1]].ok
    /\ World[files[2]].ok
    /\ log = <<LogError("reading file", files[1])>>

----------------------------------------------------------------------------
(* Properties of main, under Spec *)

\* C10: empty input. Once collect_files has returned no file, main is at
\* its end with an error logged: no file has been written, nothing has been
\* handed to the clipboard and nothing has been deleted.
C10_EmptyInput ==
    (result_files = <<>> /\ pc \notin {"main", "collect", "collect_filter", "collect_done"})
        => /\ pc = "done"
           /\ disk = EmptyDisk
           /\ chunk_files = <<>>
           /\ clipboard = <<>>
           /\ deleted = <<>>
           /\ log = <<LogError("no files found", "")>>

\* A run whose patterns matched files that were all excluded
C10_Witness ==
    /\ pc = "done"
    /\ all_files # <<>>
    /\ result_files = <<>>
    /\ disk = EmptyDisk

\* The names of the chunk files of the run
ChunkFileNames == {ChunkFileName(args.output, n) : n \in 1..Len(chunk_files)}

Fits == Len(disk[args.output]) <= chunk_size

\* The footer of the last chunk of a run of one chunk
OnlyFooter ==
    "\nEnd of part 1 of 1. This is the final part. Please confirm receipt of all parts and proceed with the analysis only after receiving this message.\n"

\* C12, as stated: when the document is at most chunk_size long, the
\* splitter produces exactly one chunk, made of all the lines of the
\* document followed by the terminal footer and nothing else.
C12_SingleChunk ==
    (pc = "split_done" /\ Fits)
        => /\ Len(chunks) = 1
           /\ chunks[1] = [i \in 1..Len(lines) |-> Orig(lines[i])] \o <<Syn(OnlyFooter)>>
           /\ ChunkFile(1) = disk[args.output] \o OnlyFooter

\* C12, amended: when the document is at most chunk_size long, the splitter
\* produces exactly one chunk, made of all the lines of the document, then
\* one closing fence line when the document ends inside a code box (an odd
\* number of its lines begin with the fence marker), then the terminal
\* footer, with no beginning-of-part header and no continuation notice.
C12_SingleChunkClosed ==
    (pc = "split_done" /\ Fits)
        => LET close == IF FenceCount(disk[args.output]) % 2 = 1 THEN "~~~\n" ELSE ""
           IN  /\ Len(chunks) = 1
               /\ OrigLines(chunks) = lines
               /\ ChunkFile(1) = disk[args.output] \o close \o OnlyFooter
               /\ \A i \in 1..Len(chunks[1]) :
                     chunks[1][i].syn => chunks[1][i].txt \in {"~~~\n", OnlyFooter}

\* A document that fits and ends inside a code box
C12_Witness ==
    /\ pc = "split_done"
    /\ Fits
    /\ FenceCount(disk[args.output]) % 2 = 1
    /\ Len(chunks) = 1
    /\ Len(lines) > 10

\* The footer of a chunk that is not the last, and the footer of the last
PartFooter(n) ==
    "\nEnd of part " \o ToString(n) \o " of " \o ToString(total_chunks)
    \o ". Please confirm receipt and let me know when you are ready for the next part.\n"

FinalFooter(n) ==
    "\nEnd of part " \o ToString(n) \o " of " \o ToString(total_chunks)
    \o ". This is the final part. Please confirm receipt of all parts and proceed with the analysis only after receiving this message.\n"

FinalMark == "This is the final part. Please confirm receipt of all parts and proceed with the analysis only after receiving this message.\n"

\* C13: footers and numbering. The chunks are numbered 1..N with N >= 1,
\* chunk n is the file <base>_chunk_<n><ext> and no other chunk file is
\* written; every chunk before the last ends with the footer of a part
\* carrying its own number, and the last chunk alone ends with the footer
\* of the final part.
C13_FootersNumbering ==
    pc = "split_done"
        => LET N == Len(chunks)
           IN  /\ N >= 1
               /\ chunk_files = [n \in 1..N |-> "output_chunk_" \o ToString(n) \o ".md"]
               /\ DOMAIN disk = {"output.md"} \cup {chunk_files[n] : n \in 1..N}
               /\ \A n \in 1..N : disk[chunk_files[n]] = ChunkText(chunks[n])
               /\ \A n \in 1..(N - 1) :
                     /\ EndsWith(disk[chunk_files[n]], PartFooter(n))
                     /\ ~EndsWith(disk[chunk_files[n]], FinalMark)
               /\ EndsWith(disk[chunk_files[N]], FinalFooter(N))

\* A run that wrote four chunks or more
C13_Witness ==
    /\ pc = "split_done"
    /\ Len(chunks) >= 4
    /\ EndsWith(disk["output_chunk_3.md"], PartFooter(3))

----------------------------------------------------------------------------
(* Properties of the preamble, under SpecCat *)

\* What concatenate_files writes after the preamble
AfterPreamble ==
    TreeSection(files)
    \o "\nHere are the files:\n\n"
    \o Join([i \in 1..Len(files) |-> FileBlock(file_content, files[i])])

\* C14, as stated: the document starts with the content of the prompt file
\* and a blank line whenever a prompt file is given, with the built-in
\* preamble when none is given and skip_prompt is false, and with neither
\* when none is given and skip_prompt is true.
C14_PreambleResolution ==
    pc = "cat_done"
        => disk[args.output] =
              (IF prompt_file # "" THEN file_content[prompt_file].text \o "\n\n"
               ELSE IF ~skip_prompt THEN BuiltinPreamble
               ELSE "")
              \o AfterPreamble

\* C14, amended: the document starts with the content of the prompt file
\* and a blank line whenever a prompt file is given and can be read, with
\* nothing (and an error is logged) whenever a prompt file is given and
\* cannot be read, with the built-in preamble when none is given and
\* skip_prompt is false, and with nothing when none is given and
\* skip_prompt is true.
C14_PreambleReadable ==
    pc = "cat_done"
        => /\ disk[args.output] =
                 (IF prompt_file # ""
                  THEN IF file_content[prompt_file].ok
                       THEN file_content[prompt_file].text \o "\n\n"
                       ELSE ""
                  ELSE IF ~skip_prompt THEN BuiltinPreamble
                  ELSE "")
                 \o AfterPreamble
           /\ (prompt_file # "" /\ ~file_content[prompt_file].ok)
                 => (Len(log) >= 1 /\ log[1] = LogError("reading prompt file", prompt_file))

\* A run with a prompt file and skip_prompt set, whose document starts with
\* the content of the prompt file
C14_Witness ==
    /\ pc = "cat_done"
    /\ skip_prompt
    /\ prompt_file = "prompt.txt"
    /\ startswith(disk[args.output], "Review these files.\n\n\n\nHere is the directory structure:")

----------------------------------------------------------------------------
(* Properties of the delivery, under Spec *)

\* C15: delivery failure. At the end of a run in which the copy of a chunk
\* to the clipboard failed, the failure of that chunk is in the log as an
\* error, every chunk has been handed to the clipboard in its turn, and
\* every chunk file is on the disk with the text the splitter wrote.
C15_DeliveryFailure ==
    pc = "done"
        => \A k \in 1..Len(clipboard) :
              ~clipboard[k].ok
                 => /\ \E j \in 1..Len(log) :
                          log[j] = LogError("copying to clipboard", clipboard[k].file)
                    /\ Len(clipboard) = Len(chunk_files)
                    /\ \A n \in 1..Len(chunk_files) :
                          /\ clipboard[n].file = chunk_files[n]
                          /\ chunk_files[n] \in DOMAIN disk
                          /\ disk[chunk_files[n]] = ChunkText(chunks[n])

----------------------------------------------------------------------------
(* Properties of the syntax tagger, under SpecTag *)

\* The last component of the path get_file_type was called on
BareName == LET p == SplitOn(files[1], "/") IN p[Len(p)]

\* C16: bare filenames. For a file whose bare name is a key of the table,
\* get_file_type returns the tag the table holds under that key.
C16_BareFilenames ==
    (pc = "tag_done" /\ DictHas(FILE_TYPE_LANGUAGES, BareName))
        => file_type = DictGet(FILE_TYPE_LANGUAGES, BareName, "text")

\* The tag of each extension of TagExts, in each spelling, read off the
\* table of the source; every other extension has the fallback tag
ExpectedTag ==
    (".py" :> "python") @@ (".PY" :> "python") @@ (".Py" :> "python")
    @@ (".js" :> "javascript") @@ (".Js" :> "javascript")
    @@ (".txt" :> "text") @@ (".TXT" :> "text")
    @@ (".md" :> "markdown") @@ (".mD" :> "markdown")
    @@ (".mak" :> "make")
    @@ (".zzz" :> "text") @@ ("" :> "text")

----------------------------------------------------------------------------
(* Properties of the code box tracking, under SpecSplit *)

\* A line with its leading white space removed
RECURSIVE LStrip(_)
LStrip(s) ==
    IF Len(s) > 0 /\ IsSpace(CharAt(s, 1)) THEN LStrip(SubSeq(s, 2, Len(s))) ELSE s

\* C18: fence transition rule. In each turn of the splitter's loop, a line
\* that begins with the fence marker once its leading white space is
\* removed toggles in_code_box, and every other line leaves it as it was.
C18_FenceTransition ==
    [][(pc = "split_loop" /\ li <= Len(lines))
          => in_code_box' = (IF startswith(LStrip(lines[li]), "~~~")
                             THEN ~in_code_box
                             ELSE in_code_box)]_vars

\* The document lines of the chunks 1..n that begin with the fence marker
FencesBefore(n) ==
    SelectSeq(OrigLines(SubSeq(chunks, 1, n)), LAMBDA l : startswith(l, "~~~"))

\* The boundary after chunk n falls inside a code box of the document
BoundaryInside(n) == Len(FencesBefore(n)) % 2 = 1

\* Chunk n ends with a closing fence the splitter added before the
\* continuation notice and the footer
HasSyntheticClose(n) ==
    /\ Len(chunks[n]) >= 3
    /\ chunks[n][Len(chunks[n]) - 2] = Syn("~~~\n")

\* Chunk n starts with a fence the splitter added after its header and its
\* continuation notice
HasReopenedFence(n) ==
    /\ Len(chunks[n]) >= 3
    /\ chunks[n][3].syn
    /\ startswith(chunks[n][3].txt, "~~~")

\* C19: fence close and reopen across a boundary. When no file content
\* holds a fence line: a boundary inside a file's code box gives the chunk
\* before it one closing fence before its footer and the chunk after it a
\* continuation notice followed by one reopened fence that is the file's
\* opening fence line, tag included; a boundary outside any code box gives
\* neither chunk a fence line of the splitter.
C19_CloseReopen ==
    (pc = "split_done" /\ NoFenceInContents)
        => \A n \in 1..(Len(chunks) - 1) :
              IF BoundaryInside(n)
              THEN /\ HasSyntheticClose(n)
                   /\ HasReopenedFence(n + 1)
                   /\ chunks[n + 1][3].txt = FencesBefore(n)[Len(FencesBefore(n))]
              ELSE /\ ~HasSyntheticClose(n)
                   /\ ~HasReopenedFence(n + 1)

----------------------------------------------------------------------------
(* The reference rendering of the tree, under SpecTree *)

\* The segments of each file of TreeFiles below the working directory, or
\* from the root for the file that is not below it
SegmentsOf ==
    ("a/b/x.py" :> <<"a", "b", "x.py">>)
    @@ ("a/b/y.py" :> <<"a", "b", "y.py">>)
    @@ ("a/z.py" :> <<"a", "z.py">>)
    @@ ("./c.py" :> <<"c.py">>)
    @@ ("a/x/f.py" :> <<"a", "x", "f.py">>)
    @@ ("b/x/g.py" :> <<"b", "x", "g.py">>)
    @@ ("/etc/h.py" :> <<"/", "etc", "h.py">>)

\* The 4-character prefix, 0 to 2 times
IndentOf == <<"", "|   ", "|   |   ">>

\* The lines of one file, from the shortest prefix to the whole path
LinesOf(file) ==
    [k \in 1..Len(SegmentsOf[file]) |-> IndentOf[k] \o "+-- " \o SegmentsOf[file][k]]

\* The lines of all the files, in the order of the files
AllLines(fl) == Flatten([i \in 1..Len(fl) |-> LinesOf(fl[i])])

\* A sequence cut down to the first occurrence of each of its elements
FirstOccurrences(seq) ==
    LET first == SelectSeq([i \in 1..Len(seq) |-> i],
                           LAMBDA i : \A j \in 1..(i - 1) : seq[j] # seq[i])
    IN  [n \in 1..Len(first) |-> seq[first[n]]]

\* C20: tree format and order. The tree is the sequence of the lines
\* 'prefix repeated k-1 times, branch marker, k-th segment', for each file
\* in the given order and each k from 1 to the number of its segments, cut
\* down to the first occurrence of each line text.
C20_TreeReference ==
    pc = "tree_done" => structure = FirstOccurrences(AllLines(files))

\* Three files of which the second gives a line the first has given
C20_Witness ==
    /\ pc = "tree_done"
    /\ files = <<"a/x/f.py", "b/x/g.py", "a/z.py">>
    /\ structure = <<"+-- a", "|   +-- x", "|   |   +-- f.py", "+-- b",
                     "|   |   +-- g.py", "|   +-- z.py">>

----------------------------------------------------------------------------
(* Properties of the content of the chunks, under SpecSplit *)

\* The places of the lines of the document in a chunk
OrigPlaces(chunk) == {i \in 1..Len(chunk) : ~chunk[i].syn}

\* The buffer of a chunk when add_end_of_part_message or the final footer
\* is about to be appended: everything up to its last line of the document
BeforeFooter(chunk) ==
    IF OrigPlaces(chunk) = {} THEN <<>>
    ELSE SubSeq(chunk, 1, Max(OrigPlaces(chunk)))

\* C24: in the main pass, the buffer of every chunk just before its footer
\* is appended (the start-of-part header and the lines of the document) is
\* at most chunk_size long, unless the chunk holds at most one line of the
\* document.
C24_ContentBudget ==
    pc = "split_done"
        => \A n \in 1..Len(chunks) :
              Cardinality(OrigPlaces(chunks[n])) >= 2
                  => Len(ChunkText(BeforeFooter(chunks[n]))) <= chunk_size

\* A run in which a chunk after the first holds several lines of the
\* document after its header, and another chunk holds a single line that
\* takes it over chunk_size
C24_Witness ==
    /\ pc = "split_done"
    /\ \E n \in 2..Len(chunks) :
          /\ Cardinality(OrigPlaces(chunks[n])) >= 2
          /\ chunks[n][1].syn
    /\ \E n \in 1..Len(chunks) :
          /\ Cardinality(OrigPlaces(chunks[n])) = 1
          /\ Len(ChunkText(BeforeFooter(chunks[n]))) > chunk_size

\* C25, as stated: for every document that is not empty and every chunk
\* size, every chunk the splitter writes holds at least one line of the
\* document.
C25_NoMarkerOnlyChunk ==
    pc = "split_done"
        => \A n \in 1..Len(chunks) : OrigPlaces(chunks[n]) # {}

----------------------------------------------------------------------------
(* Properties of the continuation notice, under SpecSplit *)

\* The text concatenate_files wrote before the block of files[i]
TextBeforeBlock(i) ==
    Preamble(file_content, skip_prompt, prompt_file)
    \o TreeSection(files)
    \o "\nHere are the files:\n\n"
    \o Join([j \in 1..(i - 1) |-> FileBlock(file_content, files[j])])

\* The place, among the lines of the document, of the path header of the
\* block of files[i]
BlockFirstLine(i) == Len(splitlines(TextBeforeBlock(i))) + 1

\* The path header of the block of files[i], as a notice names it
PathHeader(i) == "./" \o PathStr(RelativeParts(files[i]))

\* The name in the notice that ends chunk n, a chunk that is not the last
NoticeName(n) ==
    LET notice == chunks[n][Len(chunks[n]) - 1].txt
    IN  SubSeq(notice, 2, Len(notice) - Len(" continued in next file\n"))

\* The place, among the lines of the document, of the first line of the
\* document in chunk n + 1
FirstLineAfter(n) ==
    Len(Flatten([m \in 1..n |-> OrigLines(<<chunks[m]>>)])) + 1

\* C22, as stated: the name in the notice that ends a chunk and begins the
\* next one is not empty and is the path header of the file block that
\* holds the first line of the document in the next chunk, wherever the
\* boundary falls.
C22_NoticeNamesFile ==
    pc = "split_done"
        => \A n \in 1..(Len(chunks) - 1) :
              /\ chunks[n + 1][2].txt = NoticeName(n) \o " (continued)\n\n"
              /\ NoticeName(n) # ""
              /\ \E i \in 1..Len(files) :
                    /\ BlockFirstLine(i) <= FirstLineAfter(n)
                    /\ FirstLineAfter(n) < BlockFirstLine(i + 1)
                    /\ NoticeName(n) = PathHeader(i)

----------------------------------------------------------------------------
(* Properties of the shape of the tree, under SpecTree *)

\* The path prefixes of the files that are not empty: the directories above
\* them and the files themselves
PathPrefixes(fl) == AncestorDirs(fl) \cup FilePaths(fl)

\* C26, as stated: the tree has as many lines as the files have distinct
\* path prefixes that are not empty, so that two directories of one name at
\* one depth under different parents have a line each.
C26_TreeCompleteness ==
    pc = "tree_done" => Len(structure) = Cardinality(PathPrefixes(files))

\* The depth a line of the tree is drawn at
DepthOf(line) ==
    CHOOSE d \in 1..Len(line) : IsPrefix(Repeat("|   ", d - 1) \o "+-- ", line)

\* The lines of depth d before the place pos of the tree
Above(pos, d) == {j \in 1..(pos - 1) : DepthOf(structure[j]) = d}

\* C27, as stated: for every path prefix p of two segments or more, the
\* nearest line of the depth above, before the line emitted for p, is the
\* line emitted for the parent of p, whatever the order of the files.
C27_TreeShape ==
    pc = "tree_done"
        => \A p \in PathPrefixes(files) :
              Len(p) >= 2
                  => \E pos \in 1..Len(structure) :
                        /\ structure[pos] = TreeLine(p, Len(p))
                        /\ Above(pos, Len(p) - 1) # {}
                        /\ structure[Max(Above(pos, Len(p) - 1))]
                              = TreeLine(p, Len(p) - 1)

----------------------------------------------------------------------------
(* Properties of the delivery loop and of the deletion, under Spec *)

\* The places of the console where question q was asked
AskedAt(q) == {i \in 1..Len(console) : console[i].q = q}

\* The number of times the operator was waited for between two chunks
Enters == Cardinality(AskedAt("enter"))

\* C21: delivery pacing. The chunks are handed to the clipboard step in the
\* order 1..N, chunk i + 1 only after the operator has confirmed after the
\* copy of chunk i, and no confirmation is awaited after the last chunk.
C21_DeliveryPacing ==
    /\ Len(clipboard) <= Len(chunk_files)
    /\ \A i \in 1..Len(clipboard) : clipboard[i].file = chunk_files[i]
    /\ Enters <= Len(clipboard)
    /\ Len(clipboard) <= Enters + 1
    /\ chunk_files # <<>> => Enters <= Len(chunk_files) - 1
    /\ pc = "wait_enter" => Len(clipboard) = ki /\ ki < Len(chunk_files)
    /\ pc = "done" /\ clipboard # <<>>
          => /\ Len(clipboard) = Len(chunk_files)
             /\ Enters = Len(chunk_files) - 1

\* A delivery of three chunks or more, over
C21_Witness ==
    /\ pc = "done"
    /\ Len(clipboard) >= 3
    /\ Enters = Len(clipboard) - 1

\* Whether the operator answered question q, and answered it with yes or
\* with no
Answered(q, yes) == \E i \in AskedAt(q) : SaysYes(console[i].a) = yes

\* C28: deletion ordering in main. Chunk files are deleted only after every
\* chunk was handed to the clipboard step, and only when the flag or the
\* operator's answer asked for it; when the operator declines the
\* clipboard, no chunk file is deleted and the question about deleting is
\* not asked.
C28_DeletionOrdering ==
    /\ deleted # <<>>
          => /\ chunk_files # <<>>
             /\ Len(clipboard) = Len(chunk_files)
             /\ args.delete_chunks \/ Answered("delete", TRUE)
             /\ deleted = chunk_files
    /\ \A n \in 1..Len(chunk_files) :
          chunk_files[n] \notin DOMAIN disk => deleted # <<>>
    /\ AskedAt("delete") # {} => Len(clipboard) = Len(chunk_files)
    /\ Answered("copy", FALSE)
          => /\ deleted = <<>>
             /\ AskedAt("delete") = {}
             /\ pc \notin {"copy", "wait_enter", "ask_delete"}

\* The chunk files deleted on the operator's answer, after a delivery the
\* operator asked for, of two chunks or more
C28_Witness ==
    /\ pc = "done"
    /\ ~args.delete_chunks /\ ~args.copy
    /\ Answered("copy", TRUE) /\ Answered("delete", TRUE)
    /\ Len(chunk_files) >= 2
    /\ deleted = chunk_files

----------------------------------------------------------------------------
(* Properties of runs that follow one another, under SpecRuns *)

\* The files on the disk that have the name of a chunk of the output file
ChunkFilesOnDisk ==
    {f \in DOMAIN disk :
        \E n \in 1..Cardinality(DOMAIN disk) : f = ChunkFileName(args.output, n)}

\* C23, as stated: after any sequence of runs that write to one output
\* name, without deletion, the chunk files on the disk are exactly the
\* chunks 1..N of the most recent run.
C23_NoStaleChunks ==
    pc = "split_done"
        => /\ ChunkFilesOnDisk = {chunk_files[n] : n \in 1..Len(chunk_files)}
           /\ \A n \in 1..Len(chunks) : disk[chunk_files[n]] = ChunkText(chunks[n])

----------------------------------------------------------------------------
(* Properties of confirm_directories, under SpecConfirm *)

\* The directories the operator was asked about and accepted or declined
AcceptedDirs ==
    {d \in Range(confirm.directories) :
        \E i \in 1..Len(console) :
           console[i].q = DirectoryQuestion(d) /\ ConfirmYes(console[i].a)}

DeclinedDirs ==
    {d \in Range(confirm.directories) :
        \E i \in 1..Len(console) :
           console[i].q = DirectoryQuestion(d) /\ ~ConfirmYes(console[i].a)}

\* Directory d is directory e or lies below it; the directory "" is the
\* starting directory, which everything lies below
DirWithin(d, e) == d = e \/ e = "" \/ startswith(d, e \o "/")

UnderDeclined(d) == \E e \in DeclinedDirs : DirWithin(d, e)

\* C29, as stated: no returned file lies in a declined directory or below
\* one, every file of an accepted directory that is below no declined
\* directory is returned exactly once, and declining a directory has no
\* effect on a directory that is not below it, such as src2 beside src: the
\* operator is asked about it.
C29_ConfirmDirectories ==
    pc = "confirm_done"
        => /\ \A i \in 1..Len(confirm.included_files) :
                 ~UnderDeclined(dirname(confirm.included_files[i]))
           /\ \A i \in 1..Len(files) :
                 (dirname(files[i]) \in AcceptedDirs /\ ~UnderDeclined(dirname(files[i])))
                     => Cardinality({j \in 1..Len(confirm.included_files) :
                                        confirm.included_files[j] = files[i]}) = 1
           /\ \A d \in Range(confirm.directories) :
                 ~UnderDeclined(d) => d \in AcceptedDirs

====
